---- MODULE Spec2Model ----
(***************************************************************************)
(* Model of the context library: Context (unnamed/part_001),               *)
(* CancelableContext (unnamed/part_000) and DeadlineContext                *)
(* (src/DeadlineContext.ts).                                               *)
(*                                                                         *)
(* The heap is the sequence of the context objects whose constructor       *)
(* returned; an object's index is its identity.  Every action is one whole *)
(* synchronous run of a public operation, of a timer callback or of one    *)
(* microtask (the continuation of `await parent.done`).  The operators     *)
(* that model methods work on a machine value                              *)
(*     M = [heap, log, mq, ev, err]                                        *)
(* so that nested and re-entrant calls compose as in the source; err is    *)
(* the pending exception, and every operator passes a machine with a       *)
(* pending exception through unchanged (the exception unwinds the stack).  *)
(* ev is the trace of the run itself: the cancellations that began, the    *)
(* listener invocations and the controller.abort calls, in program order.  *)
(***************************************************************************)
EXTENDS Integers, Sequences, FiniteSets, TLC

VARIABLES
  heap,   \* Seq of context objects (see ContextObj, CancelableObj)
  log,    \* Seq of [ctx, cb, cause]: the listener invocations, in order
  mq,     \* Seq of context ids: the microtask queue of `await parent.done` continuations
  ncb,    \* number of callbacks handed to onCancel so far
  last,   \* the operation that ran last, and how it ended
  ev      \* Seq of [e, ctx, aborted]: what the operation that ran last did, in order

vars == <<heap, log, mq, ncb, last, ev>>

\* ------------------------------------------------------------------ bounds

\* at most MaxCtx context objects, MaxRoots of them roots, and MaxCb registered
\* callbacks; objects and callbacks together at most MaxSize
MaxCtx == 4
MaxRoots == 1
MaxCb == 2
MaxSize == 4
\* the number of scopes of a chain (SpecChain)
ChainLen == 3

\* --------------------------------------------------------------- constants

NULL == "null"
UNDEFINED == "undefined"
NoErr == "none"
TypeError == "TypeError"

DefaultCause == "context canceled"
DeadlineCause == "context deadline exceeded"

\* the causes a caller passes to cancel(cause); UNDEFINED is cancel() with no argument
UserCauses == {"a"}
CancelArgs == UserCauses \cup {UNDEFINED}
\* the cause a re-entrant listener passes to cancel
ReentrantCause == "r"

\* what a listener does when it is invoked; every listener is recorded in log
CallbackKinds == {"log", "reenter"}

\* ------------------------------------------------------------------ objects

\* new Context(parent): only the parent field; `children` is not a property of a plain Context
ContextObj(parent) ==
  [kind |-> "Context", parent |-> parent, canceled |-> FALSE, cause |-> NULL,
   cancelCallback |-> <<>>, aborted |-> FALSE, reason |-> NULL, children |-> 0,
   timeoutId |-> UNDEFINED, timer |-> "none", hasResolve |-> FALSE, done |-> NULL,
   waiter |-> "none"]

\* the fields CancelableContext's constructor defines; kind is the object's class
\* (CancelableContext, or DeadlineContext while its super() runs)
CancelableObj(kind, parent) ==
  [kind |-> kind, parent |-> parent, canceled |-> FALSE, cause |-> NULL,
   cancelCallback |-> <<>>, aborted |-> FALSE, reason |-> NULL, children |-> 0,
   timeoutId |-> UNDEFINED, timer |-> "none", hasResolve |-> FALSE, done |-> NULL,
   waiter |-> "none"]

\* parent instanceof CancelableContext
IsCancelable(o) == o.kind \in {"Cancelable", "Deadline"}

isCancelled(o) == o.canceled
getCause(o) == o.cause

Set(M, c, f, v) == [M EXCEPT !.heap[c][f] = v]

\* F applied to the value of v.  The source computes the result of a statement or of
\* an argument once and then uses it; so does Bind, where a LET would leave the
\* expression to be evaluated again at each use.
Bind(v, F(_)) == CHOOSE r \in {F(x) : x \in {v}} : TRUE

Ids == 1..Len(heap)
Scopes == {c \in Ids : IsCancelable(heap[c])}
Deadlines == {c \in Ids : heap[c].kind = "Deadline"}


\* ------------------------------------------------------------------ helpers

RECURSIVE SortedSeq(_)
\* the ids of S in increasing order (construction order)
SortedSeq(S) ==
  IF S = {} THEN <<>>
  ELSE LET m == CHOOSE x \in S : \A y \in S : x <= y
       IN <<m>> \o SortedSeq(S \ {m})

\* the continuations suspended at `await heap[p].done`
Awaiting(M, p) ==
  {d \in 1..Len(M.heap) : M.heap[d].parent = p /\ M.heap[d].waiter = "waiting"}

\* the run records event e of scope c, and whether c's signal is aborted at that point
Emit(M, e, c) ==
  [M EXCEPT !.ev = Append(@, [e |-> e, ctx |-> c, aborted |-> M.heap[c].aborted])]

RECURSIVE Enqueue(_, _)
\* the continuations ws, in order, become microtasks
Enqueue(M, ws) ==
  IF ws = <<>> THEN M
  ELSE Bind([Set(M, Head(ws), "waiter", "queued") EXCEPT !.mq = Append(@, Head(ws))],
            LAMBDA M1 : Enqueue(M1, Tail(ws)))

\* ---------------------------------------------------- CancelableContext

RECURSIVE cancel(_, _, _)
RECURSIVE CancelableContext_cancel(_, _, _)
RECURSIVE DeadlineContext_cancel(_, _, _)
RECURSIVE forEachCallback(_, _, _)
RECURSIVE callback(_, _, _, _)
RECURSIVE onCancel(_, _, _)

\* controller.abort(reason): an AbortSignal aborts once and keeps its first reason
abort(M, c, reason) ==
  IF M.err # NoErr THEN M
  ELSE IF M.heap[c].aborted THEN Emit(M, "abort", c)
  ELSE Set(Set(Emit(M, "abort", c), c, "aborted", TRUE), c, "reason", reason)

\* protected setCause(cause)
setCause(M, c, cause) ==
  IF M.err # NoErr THEN M ELSE Set(M, c, "cause", cause)

\* a listener cb = [id, kind] called with cause: it is recorded; a "reenter" listener
\* then calls cancel(ReentrantCause) and onCancel(a new recording listener) on the
\* scope c it was registered on
callback(M, c, cb, cause) ==
  IF M.err # NoErr THEN M
  ELSE Bind([Emit(M, "call", c) EXCEPT
               !.log = Append(@, [ctx |-> c, cb |-> cb.id, cause |-> cause])],
            LAMBDA M1 :
              IF cb.kind = "reenter"
              THEN Bind(cancel(M1, c, ReentrantCause), LAMBDA M2 :
                     onCancel(M2, c, [id |-> <<"inner", cb.id[2]>>, kind |-> "log"]))
              ELSE M1)

\* forEach that stops one listener short
forEachCallback_OffByOne(M, c, i) ==
  IF M.err # NoErr \/ i >= Len(M.heap[c].cancelCallback) THEN M
  ELSE Bind(callback(M, c, M.heap[c].cancelCallback[i], M.heap[c].cause),
            LAMBDA M1 : forEachCallback(M1, c, i + 1))

\* this.cancelCallback.forEach((callback) => callback(this.cause!)), from index i on
forEachCallback(M, c, i) ==
  IF M.err # NoErr \/ i > Len(M.heap[c].cancelCallback) THEN M
  ELSE Bind(callback(M, c, M.heap[c].cancelCallback[i], M.heap[c].cause),
            LAMBDA M1 : forEachCallback(M1, c, i + 1))

\* cancel that stores the cause before testing `canceled`
CancelableContext_cancel_Overwrite(M, c, cause) ==
  IF M.err # NoErr THEN M
  ELSE Bind(Set(M, c, "cause", cause), LAMBDA M0 :
         IF ~M0.heap[c].canceled
         THEN Bind(Set(Emit(M0, "cancel", c), c, "canceled", TRUE), LAMBDA M1 :
              Bind(forEachCallback(M1, c, 1), LAMBDA M2 :
              Bind(abort(M2, c, cause), LAMBDA M3 :
                IF M3.err = NoErr /\ M3.heap[c].children # 0
                THEN cancel(M3, M3.heap[c].children, cause)
                ELSE M3)))
         ELSE M0)

\* CancelableContext.cancel(cause)
CancelableContext_cancel(M, c, cause) ==
  IF M.err # NoErr THEN M
  ELSE IF ~M.heap[c].canceled
  THEN Bind(Set(Set(Emit(M, "cancel", c), c, "canceled", TRUE), c, "cause", cause),
            LAMBDA M1 :
       Bind(forEachCallback(M1, c, 1), LAMBDA M2 :
       Bind(abort(M2, c, cause), LAMBDA M3 :
         IF M3.err = NoErr /\ M3.heap[c].children # 0
         THEN cancel(M3, M3.heap[c].children, cause)
         ELSE M3)))
  ELSE M

\* onCancel that also queues the callback it delivers at once
onCancel_AlwaysPush(M, c, cb) ==
  IF M.err # NoErr THEN M
  ELSE Bind(Set(M, c, "cancelCallback", Append(M.heap[c].cancelCallback, cb)),
            LAMBDA M1 :
              IF M.heap[c].canceled THEN callback(M1, c, cb, M.heap[c].cause) ELSE M1)

\* CancelableContext.onCancel(callback)
onCancel(M, c, cb) ==
  IF M.err # NoErr THEN M
  ELSE IF M.heap[c].canceled
  THEN callback(M, c, cb, M.heap[c].cause)
  ELSE Set(M, c, "cancelCallback", Append(M.heap[c].cancelCallback, cb))

\* ------------------------------------------------------ DeadlineContext

\* clearTimeout that forgets the timer id and leaves the timer armed
clearTimeout_LeaveArmed(M, c) ==
  IF M.err # NoErr THEN M
  ELSE IF M.heap[c].timeoutId # NULL THEN Set(M, c, "timeoutId", NULL)
  ELSE M

\* private clearTimeout(): timeoutId !== null holds for undefined too
clearTimeout(M, c) ==
  IF M.err # NoErr THEN M
  ELSE IF M.heap[c].timeoutId # NULL
  THEN Set(Set(M, c, "timer", IF M.heap[c].timer = "pending" THEN "cleared"
                              ELSE M.heap[c].timer),
           c, "timeoutId", NULL)
  ELSE M

\* private initializeTimer(timeoutMs): timeoutId == null holds for undefined and null
initializeTimer(M, c) ==
  IF M.err # NoErr THEN M
  ELSE IF M.heap[c].timeoutId \in {NULL, UNDEFINED}
  THEN Set(Set(M, c, "timer", "pending"), c, "timeoutId", "id") ELSE M

\* this.doneResolve(cause): a TypeError while the field is still undefined; the
\* promise settles once, and settling queues the continuations awaiting it
doneResolve(M, c, cause) ==
  IF M.err # NoErr THEN M
  ELSE IF ~M.heap[c].hasResolve THEN [M EXCEPT !.err = TypeError]
  ELSE IF M.heap[c].done # NULL THEN M
  ELSE Bind(SortedSeq(Awaiting(M, c)), LAMBDA ws :
         Bind(Set(M, c, "done", cause), LAMBDA M1 : Enqueue(M1, ws)))

\* cancel override that leaves the done promise alone
DeadlineContext_cancel_NoResolve(M, c, cause) ==
  Bind(clearTimeout(M, c), LAMBDA M1 : CancelableContext_cancel(M1, c, cause))

\* DeadlineContext.cancel(cause) (override)
DeadlineContext_cancel(M, c, cause) ==
  Bind(clearTimeout(M, c), LAMBDA M1 :
  Bind(CancelableContext_cancel(M1, c, cause), LAMBDA M2 :
    doneResolve(M2, c, cause)))

\* this.cancel(cause): dispatch on the object's class
cancel(M, c, cause) ==
  IF M.heap[c].kind = "Deadline"
  THEN DeadlineContext_cancel(M, c, cause)
  ELSE CancelableContext_cancel(M, c, cause)

\* finish that goes through cancel, so that expiry sets `canceled`
finish_ViaCancel(M, c) == cancel(M, c, DeadlineCause)

\* private finish(): the timer callback
finish(M, c) ==
  Bind(setCause(M, c, DeadlineCause), LAMBDA M1 :
  Bind(abort(M1, c, M1.heap[c].cause), LAMBDA M2 :
    doneResolve(M2, c, M2.heap[c].cause)))

\* ---------------------------------------------------------- constructors

\* the object under construction is the last one of the heap
This(M) == Len(M.heap)

\* constructor that links the new object to its parent even when it is canceled
CancelableContext_constructor_AlwaysLink(M, kind, parent) ==
  Bind([M EXCEPT !.heap = Append(@, CancelableObj(kind, parent))], LAMBDA M1 :
    LET this == This(M1)
    IN IF IsCancelable(M1.heap[parent])
       THEN Set(IF isCancelled(M1.heap[parent])
                THEN cancel(M1, this, getCause(M1.heap[parent])) ELSE M1,
                parent, "children", this)
       ELSE M1)

\* CancelableContext's constructor, run for an object of class kind
CancelableContext_constructor(M, kind, parent) ==
  Bind([M EXCEPT !.heap = Append(@, CancelableObj(kind, parent))], LAMBDA M1 :
    LET this == This(M1)
    IN IF IsCancelable(M1.heap[parent])
       THEN IF isCancelled(M1.heap[parent])
            THEN cancel(M1, this, getCause(M1.heap[parent]))
            ELSE Set(M1, parent, "children", this)
       ELSE M1)

\* Object.defineProperty(parent, "children", {value: this}) of DeadlineContext's
\* constructor: on a CancelableContext the property is writable; on a plain Context
\* the first call creates it neither writable nor configurable, and a later call with
\* another value is a TypeError
defineChildren(M, parent, this) ==
  IF M.err # NoErr THEN M
  ELSE IF IsCancelable(M.heap[parent]) \/ M.heap[parent].children \in {0, this}
  THEN Set(M, parent, "children", this)
  ELSE [M EXCEPT !.err = TypeError]

\* a constructor that does not wait for the parent's done
awaitParentDone_NoWait(M, parent, this) == M

\* async () => { await parent.done; this.cancel(parent.getCause()!) } up to its await
awaitParentDone(M, parent, this) ==
  IF M.err # NoErr THEN M
  ELSE IF M.heap[parent].done # NULL
  THEN Enqueue(M, <<this>>)
  ELSE Set(M, this, "waiter", "waiting")

\* DeadlineContext's constructor
DeadlineContext_constructor(M, parent) ==
  Bind(CancelableContext_constructor(M, "Deadline", parent), LAMBDA M1 :
    LET this == This(M1)
    IN Bind(initializeTimer(M1, this), LAMBDA M2 :
       Bind(IF M2.err # NoErr THEN M2 ELSE Set(M2, this, "hasResolve", TRUE),
            LAMBDA M3 :
         IF M3.err # NoErr THEN M3
         ELSE IF IsCancelable(M3.heap[parent]) /\ isCancelled(M3.heap[parent])
         THEN cancel(M3, this, getCause(M3.heap[parent]))
         ELSE Bind(IF M3.heap[parent].kind = "Deadline"
                   THEN awaitParentDone(M3, parent, this) ELSE M3,
                   LAMBDA M4 : defineChildren(M4, parent, this)))))

\* ----------------------------------------------------------------- actions

\* cancel without the default value of its parameter
CauseOf_NoDefault(arg) == arg

\* cancel(cause: string = "context canceled"): the cause of a call with argument arg
CauseOf(arg) == IF arg = UNDEFINED THEN DefaultCause ELSE arg

\* room for one more context object / one more callback
CanConstruct == Len(heap) < MaxCtx /\ Len(heap) + ncb < MaxSize
CanRegister == ncb < MaxCb /\ Len(heap) + ncb < MaxSize

Machine == [heap |-> heap, log |-> log, mq |-> mq, ev |-> <<>>, err |-> NoErr]

\* op: the operation; was: whether its scope (for a constructor, the parent) was
\* canceled when the operation began; err: the exception it ended with
Last(op, was, err) == [op |-> op, was |-> was, err |-> err]

\* The state after a call that ended in machine R.  A constructor that throws returns
\* no object: what it built is unreachable, and R's heap is dropped.
Commit(call, op, was) ==
  \E R \in {call} :
    /\ heap' = IF R.err = NoErr THEN R.heap ELSE heap
    /\ log' = IF R.err = NoErr THEN R.log ELSE log
    /\ mq' = IF R.err = NoErr THEN R.mq ELSE mq
    /\ last' = Last(op, was, R.err)
    /\ ev' = IF R.err = NoErr THEN R.ev ELSE <<>>

Init ==
  /\ heap = <<>>
  /\ log = <<>>
  /\ mq = <<>>
  /\ ncb = 0
  /\ last = Last("init", FALSE, NoErr)
  /\ ev = <<>>

\* Context.background() / Context.todo()
NewContext ==
  /\ CanConstruct
  /\ Cardinality({c \in Ids : heap[c].kind = "Context"}) < MaxRoots
  /\ heap' = Append(heap, ContextObj(0))
  /\ last' = Last("newContext", FALSE, NoErr)
  /\ ev' = <<>>
  /\ UNCHANGED <<log, mq, ncb>>

\* new CancelableContext(parent) / withCancel(parent)
NewCancelable(parent) ==
  /\ CanConstruct
  /\ Commit(CancelableContext_constructor(Machine, "Cancelable", parent),
            "newCancelable", heap[parent].canceled)
  /\ UNCHANGED ncb

\* new DeadlineContext(parent, timeoutMs) / withTimeout(parent, timeoutMs)
NewDeadline(parent) ==
  /\ CanConstruct
  /\ Commit(DeadlineContext_constructor(Machine, parent),
            "newDeadline", heap[parent].canceled)
  /\ UNCHANGED ncb

\* ctx.cancel(cause), or the CancelFunc returned by withCancel / withTimeout
Cancel(c, arg) ==
  /\ Commit(cancel(Machine, c, CauseOf(arg)), "cancel", heap[c].canceled)
  /\ UNCHANGED ncb

\* ctx.onCancel(callback) with a new callback of the given kind
Register(c, kind) ==
  /\ ncb' = ncb + 1
  /\ Commit(onCancel(Machine, c, [id |-> <<"cb", ncb + 1>>, kind |-> kind]),
            "onCancel", heap[c].canceled)

OnCancel(c, kind) == CanRegister /\ Register(c, kind)

\* the timer of c fires; timers are macrotasks and run once the microtask queue is empty
Finish(c) ==
  /\ heap[c].timer = "pending"
  /\ mq = <<>>
  /\ Commit(finish(Set(Machine, c, "timer", "fired"), c), "finish",
            heap[c].canceled)
  /\ UNCHANGED ncb

\* the first microtask runs: the continuation after `await parent.done` of scope c
Resume ==
  /\ mq # <<>>
  /\ LET c == Head(mq)
         M == Set([Machine EXCEPT !.mq = Tail(mq)], c, "waiter", "resumed")
     IN Commit(cancel(M, c, getCause(M.heap[heap[c].parent])), "resume",
               heap[c].canceled)
  /\ UNCHANGED ncb

Next ==
  \/ NewContext
  \/ \E p \in Ids : NewCancelable(p)
  \/ \E p \in Ids : NewDeadline(p)
  \/ \E c \in Scopes, arg \in CancelArgs : Cancel(c, arg)
  \/ \E c \in Scopes, kind \in CallbackKinds : OnCancel(c, kind)
  \/ \E c \in Deadlines : Finish(c)
  \/ Resume

Spec == Init /\ [][Next]_vars

\* The event loop: a microtask that is queued runs, and a timer that stays armed fires
\* (setTimeout with a finite delay), once the microtask queue is empty.
Fairness ==
  /\ WF_vars(Resume)
  /\ \A c \in 1..MaxCtx : WF_vars(c \in Deadlines /\ Finish(c))

SpecFair == Spec /\ Fairness

\* ------------------------------------------------- chains of three scopes

\* the class names of the scopes
ScopeKinds == {"Cancelable", "Deadline"}

\* new CancelableContext(parent) or new DeadlineContext(parent, timeoutMs)
New(M, kind, parent) ==
  IF kind = "Deadline" THEN DeadlineContext_constructor(M, parent)
  ELSE CancelableContext_constructor(M, kind, parent)

RECURSIVE BuildChain(_, _)
\* each scope of kinds constructed under the object constructed before it
BuildChain(M, kinds) ==
  IF kinds = <<>> THEN M
  ELSE Bind(New(M, Head(kinds), This(M)), LAMBDA M1 : BuildChain(M1, Tail(kinds)))

\* The state after `root = Context.background()` and ChainLen constructions, each
\* under the scope constructed before it: a propagation chain P -> C -> G of live
\* scopes of every combination of classes.
InitChain ==
  \E kinds \in [1..ChainLen -> ScopeKinds] :
    LET R == BuildChain([heap |-> <<ContextObj(0)>>, log |-> <<>>, mq |-> <<>>,
                         ev |-> <<>>, err |-> NoErr], kinds)
    IN /\ heap = R.heap
       /\ log = R.log
       /\ mq = R.mq
       /\ ncb = 0
       /\ last = Last(IF kinds[ChainLen] = "Deadline" THEN "newDeadline"
                      ELSE "newCancelable", FALSE, R.err)
       /\ ev = R.ev

\* onCancel on a scope of the chain
ChainOnCancel(c, kind) == ncb < MaxCb /\ Register(c, kind)

\* the operations on the scopes of a chain that is already built
NextChain ==
  \/ \E c \in Scopes, arg \in CancelArgs : Cancel(c, arg)
  \/ \E c \in Scopes, kind \in CallbackKinds : ChainOnCancel(c, kind)
  \/ \E c \in Deadlines : Finish(c)
  \/ Resume

SpecChain == InitChain /\ [][NextChain]_vars

\* ------------------------------------------------------------ properties

RECURSIVE HasAncestor(_, _)
\* p is a proper ancestor of c along the parent fields
HasAncestor(c, p) ==
  /\ heap[c].parent # 0
  /\ (heap[c].parent = p \/ HasAncestor(heap[c].parent, p))

\* the objects constructed with p as parent
ChildrenOf(p) == {d \in Ids : heap[d].parent = p}

\* how many times callback id was invoked
Invocations(l, id) == Cardinality({i \in 1..Len(l) : l[i].cb = id})

\* C1: for a live CancelableScope P whose only child ever constructed is the live scope
\* C, when P.cancel(x) returns C is canceled with cause x and, if C is a DeadlineScope,
\* its done future is resolved with x.
C1_PropagationToOnlyChild ==
  [][\A p \in Scopes : \A c \in Scopes : \A arg \in CancelArgs :
       ( /\ last'.op = "cancel"
         /\ ~heap[p].canceled /\ ~heap[c].canceled
         /\ ChildrenOf(p) = {c}
         /\ Cancel(p, arg) )
       => /\ heap'[c].canceled
          /\ heap'[c].cause = CauseOf(arg)
          /\ (heap[c].kind = "Deadline" => heap'[c].done = CauseOf(arg))]_vars

\* C2: after P.cancel(x) returns, every scope that has P as an ancestor is canceled.
C2_CancelsEveryDescendant ==
  [][\A p \in Scopes : \A arg \in CancelArgs :
       (last'.op = "cancel" /\ Cancel(p, arg)) =>
         \A d \in Scopes : HasAncestor(d, p) => heap'[d].canceled]_vars

\* C3: cancel is idempotent and the first cause wins: cancel on a live scope leaves it
\* canceled with the cause passed; cancel on a canceled scope changes no state and
\* invokes no listener; a canceled scope stays canceled with its cause.
C3_CancelIdempotent ==
  [][/\ \A c \in Scopes : \A arg \in CancelArgs :
          (last'.op = "cancel" /\ ~last'.was /\ ~heap[c].canceled /\ Cancel(c, arg)) =>
            heap'[c].canceled /\ heap'[c].cause = CauseOf(arg)
     /\ (last'.op = "cancel" /\ last'.was) => heap' = heap /\ log' = log /\ mq' = mq
     /\ \A c \in Scopes : heap[c].canceled =>
          heap'[c].canceled /\ heap'[c].cause = heap[c].cause]_vars

\* cancel has just run on a scope that was already canceled (with each cause of
\* CancelArgs, so also with one that differs from the scope's)
C3_Witness ==
  /\ last.op = "cancel" /\ last.was
  /\ \E c \in Scopes : heap[c].canceled /\ heap[c].cause \in UserCauses

\* C4: once getCause() of a scope is non-null it keeps that value in every later state.
C4_CauseWriteOnce ==
  [][\A c \in Scopes : heap[c].cause # NULL => heap'[c].cause = heap[c].cause]_vars

\* C5: a CancelableScope constructed under a CancelableScope R that is already canceled
\* is returned canceled with R's cause, and is not installed as R's propagation child.
C5_ConstructionInheritance ==
  [][\A R \in Scopes :
       (last'.op = "newCancelable" /\ heap[R].canceled /\ NewCancelable(R)) =>
         /\ last'.err = NoErr
         /\ Len(heap') = Len(heap) + 1
         /\ LET c == Len(heap')
            IN /\ heap'[c].kind = "Cancelable"
               /\ heap'[c].parent = R
               /\ heap'[c].canceled
               /\ heap'[c].cause = heap[R].cause
               /\ heap'[R].children = heap[R].children
               /\ heap'[R].children # c]_vars

\* a CancelableScope has just been constructed under a canceled parent
C5_Witness ==
  /\ last.op = "newCancelable" /\ last.was /\ last.err = NoErr
  /\ heap[Len(heap)].kind = "Cancelable"
  /\ heap[Len(heap)].canceled
  /\ heap[heap[Len(heap)].parent].canceled

\* C6: constructing a DeadlineScope under a parent already canceled with cause x raises
\* no error and yields a scope canceled with cause x whose done is resolved with x.
C6_DeadlineUnderCanceledParent ==
  (last.op = "newDeadline" /\ last.was) =>
    /\ last.err = NoErr
    /\ LET c == Len(heap)
       IN /\ heap[c].kind = "Deadline"
          /\ heap[c].canceled
          /\ heap[c].cause = heap[heap[c].parent].cause
          /\ heap[c].done = heap[c].cause

C8_CauseIffCanceled ==
  \A c \in Scopes : (heap[c].cause # NULL) <=> heap[c].canceled

\* C9: onCancel(cb) on a canceled scope invokes cb once, at once, with the existing
\* cause and does not add it to the listener sequence; no callback is ever invoked
\* twice by any later operation.
C9_ImmediateDelivery ==
  [][/\ \A c \in Scopes : \A kind \in CallbackKinds :
          (last'.op = "onCancel" /\ heap[c].canceled /\ OnCancel(c, kind)) =>
            LET id == <<"cb", ncb'>>
            IN /\ Len(log') > Len(log)
               /\ SubSeq(log', 1, Len(log)) = log
               /\ log'[Len(log) + 1] = [ctx |-> c, cb |-> id, cause |-> heap[c].cause]
               /\ Invocations(log', id) = 1
               /\ \A d \in Scopes : heap'[d].cancelCallback = heap[d].cancelCallback
     /\ \A i \in 1..Len(log) : Invocations(log', log[i].cb) = 1]_vars

\* a callback was delivered at once by onCancel on a canceled scope
C9_Witness ==
  /\ last.op = "onCancel" /\ last.was
  /\ Invocations(log, <<"cb", ncb>>) = 1
  /\ \A d \in Scopes : \A i \in 1..Len(heap[d].cancelCallback) :
       heap[d].cancelCallback[i].id # <<"cb", ncb>>

\* the invocations, in order, of the listeners in scope c's listener sequence
ListenerCalls(c) ==
  SelectSeq(log, LAMBDA e :
    e.ctx = c /\ \E i \in 1..Len(heap[c].cancelCallback) :
                   heap[c].cancelCallback[i].id = e.cb)

\* C10: the callbacks registered before a scope was canceled are invoked exactly once
\* each, in registration order, with the cause of the cancellation, once the scope is
\* canceled and not before; and no callback is ever invoked more than once.
C10_SingleFire ==
  /\ \A c \in Scopes :
       LET L == heap[c].cancelCallback
           calls == ListenerCalls(c)
       IN IF heap[c].canceled
          THEN /\ \A i \in 1..Len(L) : \A j \in 1..Len(L) :
                    i < j => L[i].id[2] < L[j].id[2]
               /\ Len(calls) = Len(L)
               /\ \A i \in 1..Len(L) :
                    calls[i] = [ctx |-> c, cb |-> L[i].id, cause |-> heap[c].cause]
          ELSE calls = <<>>
  /\ \A i \in 1..Len(log) : Invocations(log, log[i].cb) = 1

\* a scope with two registered listeners, one of them re-entrant, has been canceled
C10_Witness ==
  \E c \in Scopes :
    /\ heap[c].canceled
    /\ Len(heap[c].cancelCallback) = 2
    /\ \E i \in 1..2 : heap[c].cancelCallback[i].kind = "reenter"
    /\ Len(ListenerCalls(c)) = 2

RECURSIVE ChainFrom(_)
\* the propagation chain that starts at scope c: c, its children slot, and so on
ChainFrom(c) ==
  <<c>> \o (IF heap[c].children = 0 THEN <<>> ELSE ChainFrom(heap[c].children))

\* the positions in ev of the events e of scope c
Positions(e, c) == {i \in 1..Len(ev) : ev[i].e = e /\ ev[i].ctx = c}

\* C11: within one cancel call on a live scope P with propagation chain P -> C -> G:
\* every listener of a scope of the chain is invoked before that scope's signal is
\* aborted, the signal is aborted before the cancel of the next scope of the chain
\* begins, every listener of a scope runs before any listener of a later scope of the
\* chain, and the whole chain is canceled when P.cancel returns.
C11_CascadeOrdering ==
  (last.op = "cancel" /\ ~last.was /\ last.err = NoErr) =>
    LET ch == ChainFrom(ev[1].ctx)
    IN /\ ev[1].e = "cancel"
       /\ \A k \in 1..Len(ch) : heap[ch[k]].canceled
       /\ \A k \in 1..Len(ch) : Positions("cancel", ch[k]) # {} =>
            /\ \A i \in Positions("call", ch[k]) :
                 /\ ~ev[i].aborted
                 /\ \A j \in Positions("abort", ch[k]) : i < j
                 /\ \A m \in (k + 1)..Len(ch) : \A j \in Positions("call", ch[m]) : i < j
            /\ Positions("abort", ch[k]) # {}
            /\ \A m \in (k + 1)..Len(ch) :
                 \A i \in Positions("abort", ch[k]) : \A j \in Positions("cancel", ch[m]) :
                   i < j

\* C12: in every state reached, a DeadlineScope whose done is resolved has it resolved
\* with getCause(), whatever cancel calls (re-entrant ones included) and timer expiry
\* came before; and a resolved done keeps its value.
C12_DoneCarriesCause ==
  [][\A c \in 1..Len(heap') :
       (heap'[c].kind = "Deadline" /\ heap'[c].done # NULL) =>
         /\ heap'[c].done = heap'[c].cause
         /\ (c <= Len(heap) /\ heap[c].done # NULL) => heap'[c].done = heap[c].done]_vars

\* C13: no DeadlineScope has its timer cleared and its done still pending, and, timers
\* that stay armed firing eventually, the done of every DeadlineScope that was
\* constructed eventually resolves.
C13_DoneEventuallyResolves ==
  /\ [](\A c \in Deadlines : heap[c].timer = "cleared" => heap[c].done # NULL)
  /\ \A c \in 1..MaxCtx :
       [](c \in Deadlines => <>(c \in Deadlines /\ heap[c].done # NULL))

\* a DeadlineScope whose timer was cleared by a cancel has its done resolved, while
\* another one's done was resolved by its timer
C13_Witness ==
  /\ \E c \in Deadlines : heap[c].timer = "cleared" /\ heap[c].done # NULL
  /\ \E c \in Deadlines : heap[c].timer = "fired" /\ heap[c].done = DeadlineCause

\* C14: once a DeadlineScope is canceled (by a call or by a cascade) its timer is not
\* armed and does not fire in any later step, its cause and its resolved done stay as
\* they are; and no call of cancel raises an error or changes a timer that has fired
\* or was cleared.
C14_TimerInertAfterCancel ==
  [][/\ \A c \in Deadlines : heap[c].canceled =>
          /\ heap[c].timer \in {"cleared", "fired"}
          /\ heap'[c].timer = heap[c].timer
          /\ heap'[c].cause = heap[c].cause
          /\ heap[c].done # NULL /\ heap'[c].done = heap[c].done
     /\ last'.op = "cancel" =>
          /\ last'.err = NoErr
          /\ \A c \in Deadlines :
               heap[c].timer \in {"cleared", "fired"} => heap'[c].timer = heap[c].timer]_vars

\* cancel has just run on a DeadlineScope whose timer had fired, and another
\* DeadlineScope was canceled while its timer was armed
C14_Witness ==
  /\ last.op = "cancel" /\ last.err = NoErr
  /\ \E c \in Deadlines :
       heap[c].canceled /\ heap[c].timer = "fired" /\ heap[c].cause # DeadlineCause
  /\ \E c \in Deadlines : heap[c].canceled /\ heap[c].timer = "cleared"

\* c is a DeadlineScope constructed under a DeadlineScope (which was live then: the
\* constructor throws under a canceled parent)
DeadlineUnderDeadline(c) ==
  c \in Deadlines /\ heap[heap[c].parent].kind = "Deadline"

\* C15 as stated: for a DeadlineScope C constructed under a live DeadlineScope P, once
\* P's done is settled C eventually becomes canceled, and if C is live when P's done is
\* settled, C eventually is canceled with P's cause.
C15_DeadlineToDeadline ==
  \A c \in 1..MaxCtx :
    /\ (DeadlineUnderDeadline(c) /\ heap[heap[c].parent].done # NULL)
          ~> (DeadlineUnderDeadline(c) /\ heap[c].canceled)
    /\ (DeadlineUnderDeadline(c) /\ heap[heap[c].parent].done # NULL /\ ~heap[c].canceled)
          ~> (DeadlineUnderDeadline(c) /\ heap[c].canceled
                /\ heap[c].cause = heap[heap[c].parent].cause)

\* C15, amended: once P's done is settled C eventually becomes canceled; and if C is
\* still live when the continuation of its `await parent.done` runs, that run cancels
\* it with the cause P has then.
C15_DeadlineToDeadlineAtResume ==
  /\ \A c \in 1..MaxCtx :
       (DeadlineUnderDeadline(c) /\ heap[heap[c].parent].done # NULL)
         ~> (DeadlineUnderDeadline(c) /\ heap[c].canceled)
  /\ [][(last'.op = "resume" /\ mq # <<>> /\ ~heap[Head(mq)].canceled) =>
         LET c == Head(mq)
         IN /\ DeadlineUnderDeadline(c)
            /\ heap[heap[c].parent].done # NULL
            /\ heap'[c].canceled
            /\ heap'[c].cause = heap[heap[c].parent].cause
            /\ heap'[c].cause = heap'[heap[c].parent].cause]_vars

\* the continuation has just canceled a live DeadlineScope that is not the propagation
\* child of its parent, after the parent's timer fired
C15_Witness ==
  /\ last.op = "resume" /\ ~last.was
  /\ \E c \in Deadlines :
       /\ DeadlineUnderDeadline(c)
       /\ heap[c].waiter = "resumed"
       /\ heap[heap[c].parent].children # c
       /\ heap[heap[c].parent].timer = "fired"
       /\ heap[c].canceled /\ heap[c].cause = DeadlineCause

\* C16: in every reachable state, the signal of every scope is aborted iff the scope is
\* canceled, and the reason of an aborted signal is the scope's cause.
C16_SignalTracksCancellation ==
  \A c \in Scopes :
    /\ heap[c].aborted <=> isCancelled(heap[c])
    /\ heap[c].aborted => heap[c].reason = getCause(heap[c])

\* C17: when the timer of a DeadlineScope that was not canceled fires, every callback
\* registered before is invoked once with "context deadline exceeded"; and onCancel on
\* a scope whose timer has fired (and which was not canceled since) invokes its
\* callback at once with that cause and does not queue it.
C17_ExpirySurfacedToListeners ==
  [][/\ \A c \in Deadlines :
          (last'.op = "finish" /\ ~heap[c].canceled /\ Finish(c)) =>
            \A i \in 1..Len(heap[c].cancelCallback) :
              LET id == heap[c].cancelCallback[i].id
              IN /\ Invocations(log', id) = 1
                 /\ \E j \in 1..Len(log') :
                      log'[j] = [ctx |-> c, cb |-> id, cause |-> "context deadline exceeded"]
     /\ \A c \in Deadlines : \A kind \in CallbackKinds :
          ( /\ last'.op = "onCancel"
            /\ heap[c].timer = "fired" /\ ~heap[c].canceled
            /\ OnCancel(c, kind) ) =>
            /\ Len(log') > Len(log)
            /\ log'[Len(log) + 1] =
                 [ctx |-> c, cb |-> <<"cb", ncb'>>, cause |-> "context deadline exceeded"]
            /\ heap'[c].cancelCallback = heap[c].cancelCallback]_vars

\* C18: a scope constructed under a parent that is not canceled starts not canceled
\* and without a cause; cancel() with no argument on a scope that was not canceled
\* leaves it canceled with the cause "context canceled".
C18_DefaultCauseAndInitialState ==
  [][/\ ( /\ last'.op \in {"newCancelable", "newDeadline"}
          /\ ~last'.was /\ last'.err = NoErr ) =>
          /\ Len(heap') = Len(heap) + 1
          /\ LET c == Len(heap')
             IN /\ IsCancelable(heap'[c])
                /\ ~isCancelled(heap'[heap'[c].parent])
                /\ ~isCancelled(heap'[c])
                /\ getCause(heap'[c]) = NULL
     /\ \A c \in Scopes :
          ( /\ last'.op = "cancel" /\ ~last'.was /\ ~heap[c].canceled
            /\ ev' # <<>> => ev'[1].ctx = c
            /\ Cancel(c, UNDEFINED) ) =>
            /\ last'.err = NoErr
            /\ isCancelled(heap'[c])
            /\ getCause(heap'[c]) = "context canceled"]_vars

\* cancel() with no argument has just canceled a live scope whose parent is not
\* canceled
C18_Witness ==
  /\ last.op = "cancel" /\ ~last.was
  /\ \E c \in Scopes :
       /\ heap[c].canceled /\ heap[c].cause = "context canceled"
       /\ ev[1] = [e |-> "cancel", ctx |-> c, aborted |-> FALSE]
       /\ ~heap[heap[c].parent].canceled

\* C19: when the timer of a DeadlineScope P fires, the scope linked as P's propagation
\* child at that time becomes canceled with cause "context deadline exceeded" (at the
\* latest when the microtasks and timers then pending have run).
C19_ExpiryCascades ==
  \A p \in 1..MaxCtx : \A c \in 1..MaxCtx :
    ( /\ last.op = "finish" /\ ev[1].ctx = p
      /\ heap[p].children = c )
      ~> ( /\ c \in Scopes
           /\ heap[c].canceled /\ heap[c].cause = "context deadline exceeded" )

\* C20: every construction of a DeadlineScope under a non-cancelable root, whatever was
\* constructed under that root before, ends without an error and returns a live scope
\* with its timer armed.
C20_DeadlineUnderRootNeverRaises ==
  [][\A p \in Ids :
       (last'.op = "newDeadline" /\ heap[p].kind = "Context" /\ NewDeadline(p)) =>
         /\ last'.err = NoErr
         /\ Len(heap') = Len(heap) + 1
         /\ LET c == Len(heap')
            IN /\ heap'[c].kind = "Deadline" /\ heap'[c].parent = p
               /\ ~heap'[c].canceled
               /\ heap'[c].timer = "pending"]_vars

====
